---- MODULE Spec2Model ----
(***************************************************************************)
(* Dataset normalization, result cache and worker offload of               *)
(* dm4-dataset-core.js (DM4.dataset.normalize / clearCache /               *)
(* getCacheStats); DM4.Logger.critical of dm4-logger.js; and the state     *)
(* manager of dm4-state.js (getState, the actions, batched delivery to     *)
(* scoped handlers).  Each has its own specification: Spec and SyncSpec,   *)
(* LoggerSpec, ContainerSpec; StandaloneSpec is the normalizer of          *)
(* src/core/dm4-dataset-core.js.                                           *)
(*                                                                         *)
(* JavaScript values are records [t, p, c, ks]:                            *)
(*   t   the kind: "undef" "null" "bool" "num" "str" "arr" "obj",          *)
(*       "circ" (a reference back to an enclosing object) and "throwget"   *)
(*       (an accessor property whose getter throws);                       *)
(*   p   the printed form of a primitive;                                  *)
(*   c   the property values of an object or array, in insertion order;    *)
(*   ks  the property names, in the same order.                            *)
(* Property names are ordinary identifiers, never a member of              *)
(* Object.prototype.                                                       *)
(***************************************************************************)
EXTENDS Integers, Sequences, FiniteSets, TLC

----------------------------------------------------------------------------
(* JavaScript values *)

Undef == [t |-> "undef", p |-> "undefined", c |-> <<>>, ks |-> <<>>]
Null == [t |-> "null", p |-> "null", c |-> <<>>, ks |-> <<>>]
Bool(s) == [t |-> "bool", p |-> s, c |-> <<>>, ks |-> <<>>]
Num(s) == [t |-> "num", p |-> s, c |-> <<>>, ks |-> <<>>]
Str(s) == [t |-> "str", p |-> s, c |-> <<>>, ks |-> <<>>]
Obj(keys, vals) == [t |-> "obj", p |-> "", c |-> vals, ks |-> keys]
IndexNames == <<"0", "1", "2", "3">>
Arr(vals) == [t |-> "arr", p |-> "", c |-> vals, ks |-> SubSeq(IndexNames, 1, Len(vals))]
Circ == [t |-> "circ", p |-> "", c |-> <<>>, ks |-> <<>>]
ThrowGet == [t |-> "throwget", p |-> "", c |-> <<>>, ks |-> <<>>]
EmptyObj == Obj(<<>>, <<>>)

\* ToBoolean: the falsy values are undefined, null, false, 0, NaN and "".
Truthy(v) ==
  ~ \/ v.t \in {"undef", "null"}
    \/ v.t = "bool" /\ v.p = "false"
    \/ v.t = "num" /\ v.p \in {"0", "NaN"}
    \/ v.t = "str" /\ v.p = ""

\* a || b
OrElse(a, b) == IF Truthy(a) THEN a ELSE b

\* typeof v === "object"
TypeofObject(v) == v.t \in {"null", "obj", "arr", "circ"}

HasKey(v, k) == \E i \in 1..Len(v.ks) : v.ks[i] = k
KeyIndex(v, k) == CHOOSE i \in 1..Len(v.ks) : v.ks[i] = k
\* v[k] on an own property; a missing property reads as undefined.
\* (The caller tests for a throwing getter with GetThrows.)
Get(v, k) == IF HasKey(v, k) THEN v.c[KeyIndex(v, k)] ELSE Undef
GetThrows(v, k) == HasKey(v, k) /\ v.c[KeyIndex(v, k)].t = "throwget"
KeySet(v) == {v.ks[i] : i \in 1..Len(v.ks)}

\* o[k] = x on a plain object: an existing key keeps its position.
Put(o, k, x) ==
  IF HasKey(o, k)
  THEN [o EXCEPT !.c = [o.c EXCEPT ![KeyIndex(o, k)] = x]]
  ELSE [o EXCEPT !.c = Append(o.c, x), !.ks = Append(o.ks, k)]

\* Object.assign({}, a, b) for sources without throwing getters.
RECURSIVE PutAll(_, _, _)
PutAll(o, src, i) ==
  IF i > Len(src.ks) THEN o
  ELSE PutAll(Put(o, src.ks[i], src.c[i]), src, i + 1)
AnyGetterThrows(v) == \E i \in 1..Len(v.c) : v.c[i].t = "throwget"
ObjectAssign(a, b) == PutAll(PutAll(EmptyObj, a, 1), b, 1)

\* ToPropertyKey for the values used as property names.
PropKey(v) == IF v.t \in {"obj", "arr", "circ"} THEN "[object Object]" ELSE v.p

\* Deep equality that ignores property order (and, like Jest's toEqual,
\* properties whose value is undefined).
RECURSIVE DeepEqual(_, _)
DeepEqual(a, b) ==
  /\ a.t = b.t
  /\ a.p = b.p
  /\ IF a.t = "arr"
     THEN /\ Len(a.c) = Len(b.c)
          /\ \A i \in 1..Len(a.c) : DeepEqual(a.c[i], b.c[i])
     ELSE /\ \A k \in KeySet(a) \cup KeySet(b) : DeepEqual(Get(a, k), Get(b, k))

----------------------------------------------------------------------------
(* JSON.stringify *)

\* JSON.stringify throws on a cyclic structure and when a getter throws.
RECURSIVE StringifyThrows(_)
StringifyThrows(v) ==
  \/ v.t \in {"circ", "throwget"}
  \/ \E i \in 1..Len(v.c) : StringifyThrows(v.c[i])

\* The JSON text of v: properties in insertion order, a property whose value
\* is undefined is left out, undefined inside an array and NaN print as null.
\* StringifyProps(v, lo, hi) is the text of the properties lo..hi, joined by
\* commas; the range is halved so that an object of a hundred properties
\* does not nest a hundred evaluations.
RECURSIVE Stringify(_), StringifyProps(_, _, _), StringifyItems(_, _)
Stringify(v) ==
  CASE v.t = "str" -> "\"" \o v.p \o "\""
    [] v.t = "num" -> IF v.p = "NaN" THEN "null" ELSE v.p
    [] v.t \in {"null", "bool"} -> v.p
    [] v.t = "arr" -> "[" \o StringifyItems(v, 1) \o "]"
    [] v.t = "obj" -> "{" \o StringifyProps(v, 1, Len(v.ks)) \o "}"
    [] OTHER -> "null"
StringifyProps(v, lo, hi) ==
  IF lo > hi THEN ""
  ELSE IF lo = hi
  THEN IF v.c[lo].t = "undef" THEN ""
       ELSE "\"" \o v.ks[lo] \o "\":" \o Stringify(v.c[lo])
  ELSE LET mid == (lo + hi) \div 2
           left == StringifyProps(v, lo, mid)
           right == StringifyProps(v, mid + 1, hi)
       IN IF left = "" THEN right
          ELSE IF right = "" THEN left
          ELSE left \o "," \o right
StringifyItems(v, i) ==
  IF i > Len(v.c) THEN ""
  ELSE (IF i = 1 THEN "" ELSE ",") \o Stringify(v.c[i]) \o StringifyItems(v, i + 1)

\* generateCacheKey: the JSON text, undefined when JSON.stringify returns
\* undefined, null when it throws.
generateCacheKey_KeyOnFailure(raw) ==
  IF StringifyThrows(raw) THEN Str("[object Object]")
  ELSE IF raw.t = "undef" THEN Undef
  ELSE Str(Stringify(raw))
generateCacheKey(raw) ==
  IF StringifyThrows(raw) THEN Null
  ELSE IF raw.t = "undef" THEN Undef
  ELSE Str(Stringify(raw))

----------------------------------------------------------------------------
(* normalizeDatasetSync *)

VARIABLES
  Logger,              \* TRUE iff DM4.Logger is defined
  WorkerDefined,       \* TRUE iff typeof Worker !== 'undefined'
  normalizationCache,  \* cache key -> cached result [ref, val]
  worker,              \* 0 for null, else the number of the current context
  workerRequestId,     \* last correlation id issued
  pendingRequests,     \* correlation id -> [call, cacheKey]
  timers,              \* queue of the armed timeout callbacks
  inbox,               \* requests posted to a context and not yet answered
  contexts,            \* number of contexts constructed so far
  calls,               \* the normalize calls made so far and their outcome
  inputs,              \* the raw datasets the calls of this run are made on
  heap,                \* the value each of these raw objects has now
  console,             \* the lines console.error has written for DM4.Logger
  criticalCalls,       \* the DM4.Logger.critical calls made and what each gave
  objects,             \* the objects the state manager has created, by reference
  state,               \* the reference of the current state object
  subscribers,         \* the scope of each registered handler
  pendingPaths,        \* the changed paths of the pending batch
  batchTimer,          \* when the pending batch is due, NoTimer when none is
  now,                 \* the time, in ms
  invocations,         \* per handler: times invoked, state and time of the last
  snapshots,           \* what getState() returned: the reference and its value then
  diagnostics,         \* the warnings the state manager has emitted
  history,             \* the calls made on the state manager
  session              \* the scopes subscribed and the calls this page makes

vars == <<Logger, WorkerDefined, normalizationCache, worker, workerRequestId,
          pendingRequests, timers, inbox, contexts, calls, inputs, heap,
          console, criticalCalls, objects, state, subscribers, pendingPaths,
          batchTimer, now, invocations, snapshots, diagnostics, history, session>>

\* The state of the modules other than dm4-dataset-core.js, which no
\* function of dm4-dataset-core.js assigns.
datasetCore == <<Logger, WorkerDefined, normalizationCache, worker, workerRequestId,
                 pendingRequests, timers, inbox, contexts, calls, inputs, heap>>
loggerVars == <<console, criticalCalls>>
containerVars == <<objects, state, subscribers, pendingPaths, batchTimer, now,
                   invocations, snapshots, diagnostics, history, session>>
otherModules == <<loggerVars, containerVars>>

\* No timeout is armed.
NoTimer == 0 - 1

\* The page has created no state manager.
NoStateManager ==
  /\ objects = <<>>
  /\ state = 0
  /\ subscribers = <<>>
  /\ pendingPaths = <<>>
  /\ batchTimer = NoTimer
  /\ now = 0
  /\ invocations = <<>>
  /\ snapshots = <<>>
  /\ diagnostics = <<>>
  /\ history = <<>>
  /\ session = [scopes |-> <<>>, acts |-> {}]

Returned(v) == [threw |-> FALSE, val |-> v]
Thrown == [threw |-> TRUE, val |-> Undef]

\* sectorBySystem after the lists of sectors j.. have been walked; a sector
\* list is (systemList || []), and forEach on a truthy non-array is a
\* TypeError.
SectorListThrows(sectorsSrc) ==
  \/ AnyGetterThrows(sectorsSrc)
  \/ \E j \in 1..Len(sectorsSrc.c) :
        Truthy(sectorsSrc.c[j]) /\ sectorsSrc.c[j].t # "arr"
RECURSIVE AddSectorList(_, _, _, _)
AddSectorList(index, sectorName, systemList, i) ==
  IF i > Len(systemList.c) THEN index
  ELSE AddSectorList(Put(index, PropKey(systemList.c[i]), Str(sectorName)),
                     sectorName, systemList, i + 1)
RECURSIVE BuildSectorBySystem(_, _, _)
BuildSectorBySystem(index, sectorsSrc, j) ==
  IF j > Len(sectorsSrc.ks) THEN index
  ELSE BuildSectorBySystem(
         AddSectorList(index, sectorsSrc.ks[j],
                       OrElse(sectorsSrc.c[j], Arr(<<>>)), 1),
         sectorsSrc, j + 1)

\* The body of the try block for one entry of raw.systems.
MergeSystem(id, sys, pixelsSrc, gridSrc, sectorBySystem) ==
  LET base == sys
      coords == IF ~Truthy(Get(base, "coords")) /\ Truthy(Get(pixelsSrc, id))
                THEN Get(pixelsSrc, id) ELSE Get(base, "coords")
      grid == IF ~Truthy(Get(base, "grid")) /\ Truthy(Get(gridSrc, id))
              THEN Get(gridSrc, id) ELSE Get(base, "grid")
      sector == IF ~Truthy(Get(base, "sector")) /\ Truthy(Get(sectorBySystem, id))
                THEN Get(sectorBySystem, id) ELSE Get(base, "sector")
  IN ObjectAssign(base, Obj(<<"coords", "grid", "sector">>, <<coords, grid, sector>>))
MergeThrows(id, sys, pixelsSrc, gridSrc) ==
  \/ AnyGetterThrows(sys)
  \/ ~Truthy(Get(sys, "coords")) /\ GetThrows(pixelsSrc, id)
  \/ ~Truthy(Get(sys, "grid")) /\ GetThrows(gridSrc, id)

\* The forEach over Object.entries(systemsSrc): the entries are visited in
\* order; one whose merge throws adds an entry to errors, every other one
\* adds its id to normalizedSystems (the ids of an object are distinct).
NormalizeSystems(systemsSrc, pixelsSrc, gridSrc, sectorBySystem) ==
  LET sys(i) == OrElse(systemsSrc.c[i], EmptyObj)
      Fails(i) == MergeThrows(systemsSrc.ks[i], sys(i), pixelsSrc, gridSrc)
      order == [i \in 1..Len(systemsSrc.ks) |-> i]
      merged == SelectSeq(order, LAMBDA i : ~Fails(i))
      failed == SelectSeq(order, LAMBDA i : Fails(i))
  IN [systems |->
        Obj([j \in 1..Len(merged) |-> systemsSrc.ks[merged[j]]],
            [j \in 1..Len(merged) |->
               MergeSystem(systemsSrc.ks[merged[j]], sys(merged[j]),
                           pixelsSrc, gridSrc, sectorBySystem)]),
      errors |->
        [j \in 1..Len(failed) |->
           Obj(<<"systemId", "error">>,
               <<Str(systemsSrc.ks[failed[j]]), Str("getter failed")>>)]]

InvalidRaw(raw) == ~Truthy(raw) \/ ~TypeofObject(raw)

\* The four sources, each resolved once for the whole call.
SystemsSource_WithPixelIds(raw) ==
  ObjectAssign(OrElse(Get(raw, "system_pixels"), EmptyObj),
               OrElse(Get(raw, "systems"), EmptyObj))
SystemsSource(raw) == OrElse(Get(raw, "systems"), EmptyObj)
PixelsSource_PerSystem(raw) ==
  ObjectAssign(OrElse(Get(raw, "endpoint_pixels"), EmptyObj),
               OrElse(Get(raw, "system_pixels"), EmptyObj))
PixelsSource(raw) ==
  OrElse(Get(raw, "system_pixels"), OrElse(Get(raw, "endpoint_pixels"), EmptyObj))
GridSource(raw) == OrElse(Get(raw, "system_grid"), EmptyObj)
SectorsSource_Reversed(raw) ==
  LET src == OrElse(Get(raw, "sectors"), EmptyObj)
      n == Len(src.ks)
  IN [src EXCEPT !.ks = [j \in 1..n |-> src.ks[n + 1 - j]],
                 !.c = [j \in 1..n |-> src.c[n + 1 - j]]]
SectorsSource(raw) == OrElse(Get(raw, "sectors"), EmptyObj)

normalizeDatasetSync(raw) ==
  IF InvalidRaw(raw) THEN Returned(Obj(<<"systems">>, <<EmptyObj>>))
  ELSE
    LET systemsSrc == SystemsSource(raw)
        pixelsSrc == PixelsSource(raw)
        gridSrc == GridSource(raw)
        sectorsSrc == SectorsSource(raw)
    IN IF \/ AnyGetterThrows(raw)
          \/ SectorListThrows(sectorsSrc)
          \/ AnyGetterThrows(systemsSrc)
       THEN Thrown
       ELSE
         LET sectorBySystem == BuildSectorBySystem(EmptyObj, sectorsSrc, 1)
             out == NormalizeSystems(systemsSrc, pixelsSrc, gridSrc, sectorBySystem)
             result == ObjectAssign(raw, Obj(<<"systems">>, <<out.systems>>))
         IN Returned(IF Len(out.errors) > 0 /\ Logger
                     THEN Put(result, "_normalizationErrors", Arr(out.errors))
                     ELSE result)

----------------------------------------------------------------------------
(* The inputs *)

MaxCalls == 2      \* normalize calls in one run
MaxContexts == 2   \* worker contexts constructed in one run

Pair(x, y) == Arr(<<Num(x), Num(y)>>)
SolRecord == Obj(<<"name">>, <<Str("Sol")>>)

\* The raw datasets the calls draw from, by name.
DatasetNames ==
  {"null", "undefined", "number", "string", "boolean",
   "sol", "sol-reordered", "own", "bad-sectors", "getter", "falsy",
   "circular", "endpoints", "big", "big-tail", "big-meta",
   "scale-nan", "scale-null"}

\* the size from which the documentation calls a dataset large
FingerprintThreshold == 100
\* systems s1 .. s100, all empty records but the last
BigSystems(last) ==
  Obj([i \in 1..FingerprintThreshold |-> "s" \o ToString(i)],
      [i \in 1..FingerprintThreshold |->
         IF i = FingerprintThreshold THEN last ELSE EmptyObj])
Big(last) ==
  Obj(<<"systems", "system_pixels">>,
      <<BigSystems(last), Obj(<<"s1">>, <<Pair("1", "1")>>)>>)

Dataset(d) ==
  CASE d = "null" -> Null
    [] d = "undefined" -> Undef
    [] d = "number" -> Num("5")
    [] d = "string" -> Str("x")
    [] d = "boolean" -> Bool("true")
    \* the example of the specification
    [] d = "sol" ->
         Obj(<<"systems", "system_pixels", "sectors">>,
             <<Obj(<<"sol">>, <<SolRecord>>),
               Obj(<<"sol">>, <<Pair("100", "200")>>),
               Obj(<<"core">>, <<Arr(<<Str("sol")>>)>>)>>)
    \* the same dataset with its fields written in another order
    [] d = "sol-reordered" ->
         Obj(<<"sectors", "system_pixels", "systems">>,
             <<Obj(<<"core">>, <<Arr(<<Str("sol")>>)>>),
               Obj(<<"sol">>, <<Pair("100", "200")>>),
               Obj(<<"sol">>, <<SolRecord>>)>>)
    \* own values next to side tables, ids that only side tables know
    [] d = "own" ->
         Obj(<<"systems", "system_pixels", "endpoint_pixels", "system_grid",
               "sectors", "meta">>,
             <<Obj(<<"a", "b">>,
                   <<Obj(<<"coords", "sector">>, <<Pair("1", "1"), Str("home")>>), Null>>),
               Obj(<<"a", "ghost">>, <<Pair("9", "9"), Pair("5", "5")>>),
               Obj(<<"b">>, <<Pair("7", "7")>>),
               Obj(<<"ghost", "b">>, <<Str("G1"), Str("B2")>>),
               Obj(<<"rim", "core">>,
                   <<Arr(<<Str("ghost"), Str("a"), Str("b")>>),
                     Arr(<<Str("a"), Str("b")>>)>>),
               Str("m")>>)
    \* a sector whose value is a truthy non-list
    [] d = "bad-sectors" ->
         Obj(<<"systems", "sectors">>,
             <<Obj(<<"a">>, <<EmptyObj>>), Obj(<<"core">>, <<Num("5")>>)>>)
    \* own values that are present but falsy
    [] d = "falsy" ->
         Obj(<<"systems", "system_pixels", "sectors">>,
             <<Obj(<<"z", "y">>,
                   <<Obj(<<"coords", "sector">>, <<Num("0"), Str("")>>),
                     Obj(<<"grid">>, <<Bool("false")>>)>>),
               Obj(<<"z">>, <<Pair("9", "9")>>),
               Obj(<<"core">>, <<Arr(<<Str("z")>>)>>)>>)
    \* a system record with a getter that throws
    [] d = "getter" ->
         Obj(<<"systems", "system_pixels">>,
             <<Obj(<<"bad", "ok">>, <<Obj(<<"coords">>, <<ThrowGet>>), SolRecord>>),
               Obj(<<"ok">>, <<Pair("3", "4")>>)>>)
    \* raw.self = raw
    [] d = "circular" ->
         Obj(<<"systems", "system_pixels", "self">>,
             <<Obj(<<"sol">>, <<SolRecord>>),
               Obj(<<"sol">>, <<Pair("100", "200")>>),
               Circ>>)
    \* endpoint_pixels as the only pixel table
    [] d = "endpoints" ->
         Obj(<<"systems", "endpoint_pixels">>,
             <<Obj(<<"b", "c">>, <<EmptyObj, Obj(<<"coords">>, <<Pair("1", "1")>>)>>),
               Obj(<<"b", "c">>, <<Pair("7", "7"), Pair("8", "8")>>)>>)
    \* three large datasets: the same ids and the same pixel table, another
    \* last record, another pass-through field
    [] d = "big" -> Big(EmptyObj)
    [] d = "big-tail" -> Big(SolRecord)
    [] d = "big-meta" -> Put(Big(EmptyObj), "meta", Str("m"))
    \* two datasets that differ in a pass-through field only
    [] d = "scale-nan" ->
         Obj(<<"systems", "scale">>, <<Obj(<<"sol">>, <<SolRecord>>), Num("NaN")>>)
    [] d = "scale-null" ->
         Obj(<<"systems", "scale">>, <<Obj(<<"sol">>, <<SolRecord>>), Null>>)

\* The sets of datasets one run works on.
Workloads ==
  {{"null", "undefined"}, {"number"}, {"string"}, {"boolean"},
   {"sol", "sol-reordered"}, {"own", "bad-sectors"}, {"getter", "falsy"},
   {"circular", "endpoints"}}
\* The sets of datasets a run of synchronous calls works on.
SyncWorkloads ==
  {{"big", "big-tail", "big-meta"}, {"scale-nan", "scale-null"}}

----------------------------------------------------------------------------
(* The cache, the promises and the worker *)

NoResult == [ref |-> 0, val |-> Undef]
NoKey == Undef

CacheHas_Never(cacheKey) == FALSE
CacheHas(cacheKey) == Truthy(cacheKey) /\ cacheKey.p \in DOMAIN normalizationCache
\* normalizationCache.set(cacheKey, result), done only for a truthy key
CacheSet_SingleEntry(cache, cacheKey, result) ==
  IF Truthy(cacheKey)
  THEN [k \in {cacheKey.p} |-> result]
  ELSE cache
CacheSet(cache, cacheKey, result) ==
  IF Truthy(cacheKey)
  THEN [k \in DOMAIN cache \cup {cacheKey.p} |->
          IF k = cacheKey.p THEN result ELSE cache[k]]
  ELSE cache

\* getCacheStats()
getCacheStats == [size |-> Cardinality(DOMAIN normalizationCache),
                  keys |-> DOMAIN normalizationCache]

\* One normalize call: its mode and input, what became of it (status, the
\* object it returned or resolved with, how: "hit" from the cache, "sync"
\* computed in the call, "reply", "timeout", "fault", "postMessage"), what
\* initWorker did in it (init) and its correlation id (req, 0 for none).
Call(async, d, status, result, how, init, req) ==
  [async |-> async, d |-> d, status |-> status, result |-> result,
   how |-> how, init |-> init, req |-> req]

\* resolve(value) and reject(error) of the promise of call c: settling an
\* already settled promise does nothing.
Resolve(cs, c, result, how) ==
  IF cs[c].status = "pending"
  THEN [cs EXCEPT ![c].status = "resolved", ![c].result = result, ![c].how = how]
  ELSE cs
Reject(cs, c, how) ==
  IF cs[c].status = "pending"
  THEN [cs EXCEPT ![c].status = "rejected", ![c].how = how]
  ELSE cs

Init ==
  /\ Logger \in BOOLEAN
  /\ WorkerDefined \in BOOLEAN
  /\ normalizationCache = [k \in {} |-> NoResult]
  /\ worker = 0
  /\ workerRequestId = 0
  /\ pendingRequests = [i \in {} |-> [call |-> 0, cacheKey |-> NoKey]]
  /\ timers = <<>>
  /\ inbox = {}
  /\ contexts = 0
  /\ calls = <<>>
  /\ inputs \in Workloads
  /\ heap = [d \in inputs |-> Dataset(d)]
  /\ console = <<>>
  /\ criticalCalls = <<>>
  /\ NoStateManager

\* normalizeDataset(raw) without options.async
Normalize_WritesBack(d) ==
  /\ Len(calls) < MaxCalls
  /\ LET raw == heap[d]
         c == Len(calls) + 1
         cacheKey == generateCacheKey(raw)
         computed == normalizeDatasetSync(raw)
         result == [ref |-> c, val |-> computed.val]
         init == ""
     IN IF CacheHas(cacheKey)
        THEN /\ calls' = Append(calls, Call(FALSE, d, "returned",
                                normalizationCache[cacheKey.p], "hit", "", 0))
             /\ UNCHANGED normalizationCache
        ELSE IF computed.threw
        THEN /\ calls' = Append(calls, Call(FALSE, d, "threw", NoResult, "sync", init, 0))
             /\ UNCHANGED normalizationCache
        ELSE /\ calls' = Append(calls, Call(FALSE, d, "returned", result, "sync", init, 0))
             /\ normalizationCache' = CacheSet(normalizationCache, cacheKey, result)
  /\ heap' = IF InvalidRaw(heap[d]) \/ normalizeDatasetSync(heap[d]).threw THEN heap
             ELSE [heap EXCEPT ![d] = Put(@, "systems",
                     Get(normalizeDatasetSync(@).val, "systems"))]
  /\ UNCHANGED <<otherModules, Logger, WorkerDefined, inputs, worker, workerRequestId, pendingRequests,
                 timers, inbox, contexts>>
Normalize(d) ==
  /\ Len(calls) < MaxCalls
  /\ LET raw == heap[d]
         c == Len(calls) + 1
         cacheKey == generateCacheKey(raw)
         computed == normalizeDatasetSync(raw)
         result == [ref |-> c, val |-> computed.val]
         init == ""
     IN IF CacheHas(cacheKey)
        THEN /\ calls' = Append(calls, Call(FALSE, d, "returned",
                                normalizationCache[cacheKey.p], "hit", "", 0))
             /\ UNCHANGED normalizationCache
        ELSE IF computed.threw
        THEN /\ calls' = Append(calls, Call(FALSE, d, "threw", NoResult, "sync", init, 0))
             /\ UNCHANGED normalizationCache
        ELSE /\ calls' = Append(calls, Call(FALSE, d, "returned", result, "sync", init, 0))
             /\ normalizationCache' = CacheSet(normalizationCache, cacheKey, result)
  /\ UNCHANGED <<otherModules, Logger, WorkerDefined, inputs, heap, worker, workerRequestId, pendingRequests,
                 timers, inbox, contexts>>

\* clearCache()
clearCache_CancelsPending ==
  /\ normalizationCache' = [k \in {} |-> NoResult]
  /\ pendingRequests' = [i \in {} |-> [call |-> 0, cacheKey |-> NoKey]]
  /\ timers' = <<>>
  /\ UNCHANGED <<otherModules, Logger, WorkerDefined, inputs, heap, worker, workerRequestId,
                 inbox, contexts, calls>>
clearCache ==
  /\ normalizationCache' = [k \in {} |-> NoResult]
  /\ UNCHANGED <<otherModules, Logger, WorkerDefined, inputs, heap, worker, workerRequestId, pendingRequests,
                 timers, inbox, contexts, calls>>

\* postMessage clones its argument; the structured clone reads every
\* property, so a throwing getter makes postMessage throw.
RECURSIVE CloneThrows(_)
CloneThrows(v) ==
  \/ v.t = "throwget"
  \/ \E i \in 1..Len(v.c) : CloneThrows(v.c[i])

\* dataset-normalizer.worker.js: the context answers a NORMALIZE request
\* with SUCCESS and the normalized dataset, or with ERROR when the
\* normalization fails.  Each reply is deserialized into a new object.
WorkerReply(m) ==
  LET computed == normalizeDatasetSync(heap[m.d])
  IN [id |-> m.id,
      type |-> IF computed.threw THEN "ERROR" ELSE "SUCCESS",
      payload |-> [ref |-> 0 - m.id, val |-> computed.val]]

\* var requestId = ++workerRequestId
NextRequestId_PerContext == IF worker = 0 THEN 1 ELSE workerRequestId + 1
NextRequestId == workerRequestId + 1

\* normalizeDataset(raw, {async: true}), that is normalizeDatasetAsync(raw)
\* with initWorker() inlined; constructs tells whether new Worker(...)
\* returns (TRUE) or throws (FALSE) when it is attempted.
NormalizeAsync_InitsWorkerFirst(d, constructs) ==
  /\ Len(calls) < MaxCalls
  /\ LET raw == heap[d]
         c == Len(calls) + 1
         cacheKey == generateCacheKey(raw)
         attempted == worker = 0 /\ WorkerDefined
         built == attempted /\ constructs /\ contexts < MaxContexts
         w == IF built THEN contexts + 1 ELSE worker
         init == IF worker # 0 THEN "kept"
                 ELSE IF ~WorkerDefined THEN "unsupported"
                 ELSE IF built THEN "built" ELSE "failed"
         computed == normalizeDatasetSync(raw)
         result == [ref |-> c, val |-> computed.val]
         requestId == NextRequestId
     IN IF CacheHas(cacheKey)
        THEN /\ calls' = Append(calls, Call(TRUE, d, "resolved",
                                normalizationCache[cacheKey.p], "hit", "", 0))
             /\ worker' = w
             /\ contexts' = IF built THEN contexts + 1 ELSE contexts
             /\ UNCHANGED <<normalizationCache, workerRequestId,
                            pendingRequests, timers, inbox>>
        ELSE
          /\ worker' = w
          /\ contexts' = IF built THEN contexts + 1 ELSE contexts
          /\ IF w = 0
             THEN \* fallback to sync: the worker is not available
               /\ IF computed.threw
                  THEN /\ calls' = Append(calls, Call(TRUE, d, "rejected", NoResult, "sync", init, 0))
                       /\ UNCHANGED normalizationCache
                  ELSE /\ calls' = Append(calls, Call(TRUE, d, "resolved", result, "sync", init, 0))
                       /\ normalizationCache' = CacheSet(normalizationCache, cacheKey, result)
               /\ UNCHANGED <<workerRequestId, pendingRequests, timers, inbox>>
             ELSE \* send to the worker
               /\ workerRequestId' = requestId
               /\ pendingRequests' =
                    [i \in DOMAIN pendingRequests \cup {requestId} |->
                       IF i = requestId THEN [call |-> c, cacheKey |-> cacheKey]
                       ELSE pendingRequests[i]]
               /\ IF CloneThrows(raw)
                  THEN \* postMessage throws out of the promise executor
                    /\ calls' = Append(calls, Call(TRUE, d, "rejected", NoResult,
                                                   "postMessage", init, requestId))
                    /\ UNCHANGED <<timers, inbox>>
                  ELSE
                    /\ calls' = Append(calls, Call(TRUE, d, "pending", NoResult,
                                                   "", init, requestId))
                    /\ inbox' = inbox \cup {[w |-> w, id |-> requestId, d |-> d]}
                    /\ timers' = Append(timers, [id |-> requestId, call |-> c])
               /\ UNCHANGED normalizationCache
  /\ UNCHANGED <<otherModules, Logger, WorkerDefined, inputs, heap>>

NormalizeAsync(d, constructs) ==
  /\ Len(calls) < MaxCalls
  /\ LET raw == heap[d]
         c == Len(calls) + 1
         cacheKey == generateCacheKey(raw)
         attempted == worker = 0 /\ WorkerDefined
         built == attempted /\ constructs /\ contexts < MaxContexts
         w == IF built THEN contexts + 1 ELSE worker
         init == IF worker # 0 THEN "kept"
                 ELSE IF ~WorkerDefined THEN "unsupported"
                 ELSE IF built THEN "built" ELSE "failed"
         computed == normalizeDatasetSync(raw)
         result == [ref |-> c, val |-> computed.val]
         requestId == NextRequestId
     IN IF CacheHas(cacheKey)
        THEN /\ calls' = Append(calls, Call(TRUE, d, "resolved",
                                normalizationCache[cacheKey.p], "hit", "", 0))
             /\ UNCHANGED <<normalizationCache, worker, contexts, workerRequestId,
                            pendingRequests, timers, inbox>>
        ELSE
          /\ worker' = w
          /\ contexts' = IF built THEN contexts + 1 ELSE contexts
          /\ IF w = 0
             THEN \* fallback to sync: the worker is not available
               /\ IF computed.threw
                  THEN /\ calls' = Append(calls, Call(TRUE, d, "rejected", NoResult, "sync", init, 0))
                       /\ UNCHANGED normalizationCache
                  ELSE /\ calls' = Append(calls, Call(TRUE, d, "resolved", result, "sync", init, 0))
                       /\ normalizationCache' = CacheSet(normalizationCache, cacheKey, result)
               /\ UNCHANGED <<workerRequestId, pendingRequests, timers, inbox>>
             ELSE \* send to the worker
               /\ workerRequestId' = requestId
               /\ pendingRequests' =
                    [i \in DOMAIN pendingRequests \cup {requestId} |->
                       IF i = requestId THEN [call |-> c, cacheKey |-> cacheKey]
                       ELSE pendingRequests[i]]
               /\ IF CloneThrows(raw)
                  THEN \* postMessage throws out of the promise executor
                    /\ calls' = Append(calls, Call(TRUE, d, "rejected", NoResult,
                                                   "postMessage", init, requestId))
                    /\ UNCHANGED <<timers, inbox>>
                  ELSE
                    /\ calls' = Append(calls, Call(TRUE, d, "pending", NoResult,
                                                   "", init, requestId))
                    /\ inbox' = inbox \cup {[w |-> w, id |-> requestId, d |-> d]}
                    /\ timers' = Append(timers, [id |-> requestId, call |-> c])
               /\ UNCHANGED normalizationCache
  /\ UNCHANGED <<otherModules, Logger, WorkerDefined, inputs, heap>>

Without(f, i) == [j \in DOMAIN f \ {i} |-> f[j]]

\* The 'message' listener of initWorker, run on event.data = data.
MessageListener_SettlesOldest(data) ==
  IF DOMAIN pendingRequests # {}
  THEN LET oldest == CHOOSE i \in DOMAIN pendingRequests :
                       \A j \in DOMAIN pendingRequests : i <= j
           request == pendingRequests[oldest]
       IN /\ pendingRequests' = Without(pendingRequests, oldest)
          /\ IF data.type = "SUCCESS"
             THEN /\ normalizationCache' =
                       CacheSet(normalizationCache, request.cacheKey, data.payload)
                  /\ calls' = Resolve(calls, request.call, data.payload, "reply")
             ELSE /\ calls' = Reject(calls, request.call, "reply")
                  /\ UNCHANGED normalizationCache
  ELSE UNCHANGED <<pendingRequests, normalizationCache, calls>>
MessageListener(data) ==
  IF data.id \in DOMAIN pendingRequests
  THEN LET request == pendingRequests[data.id]
       IN /\ pendingRequests' = Without(pendingRequests, data.id)
          /\ IF data.type = "SUCCESS"
             THEN /\ normalizationCache' =
                       CacheSet(normalizationCache, request.cacheKey, data.payload)
                  /\ calls' = Resolve(calls, request.call, data.payload, "reply")
             ELSE /\ calls' = Reject(calls, request.call, "reply")
                  /\ UNCHANGED normalizationCache
  ELSE UNCHANGED <<pendingRequests, normalizationCache, calls>>

\* A context answers one of the requests posted to it; the replies of
\* concurrent requests arrive in any order, and a context that was discarded
\* keeps its listeners.
OnMessage(m) ==
  /\ m \in inbox
  /\ inbox' = inbox \ {m}
  /\ MessageListener(WorkerReply(m))
  /\ UNCHANGED <<otherModules, Logger, WorkerDefined, inputs, heap, worker, workerRequestId, timers, contexts>>

RECURSIVE RejectAll(_, _)
RejectAll(cs, ids) ==
  IF ids = {} THEN cs
  ELSE LET i == CHOOSE i \in ids : TRUE
       IN RejectAll(Reject(cs, pendingRequests[i].call, "fault"), ids \ {i})

\* The 'error' listener of initWorker, for an error event of context w.
OnError_KeepsWorker(w) ==
  /\ w \in 1..contexts
  /\ calls' = RejectAll(calls, DOMAIN pendingRequests)
  /\ pendingRequests' = [i \in {} |-> [call |-> 0, cacheKey |-> NoKey]]
  /\ UNCHANGED <<otherModules, Logger, WorkerDefined, inputs, heap, normalizationCache, workerRequestId,
                 timers, inbox, contexts, worker>>
OnError(w) ==
  /\ w \in 1..contexts
  /\ calls' = RejectAll(calls, DOMAIN pendingRequests)
  /\ pendingRequests' = [i \in {} |-> [call |-> 0, cacheKey |-> NoKey]]
  /\ worker' = 0
  /\ UNCHANGED <<otherModules, Logger, WorkerDefined, inputs, heap, normalizationCache, workerRequestId,
                 timers, inbox, contexts>>

\* The setTimeout callback of normalizeDatasetAsync; the timers all wait
\* 5000 ms, so they fire in the order they were armed.
Timeout_NoFallback ==
  /\ timers # <<>>
  /\ timers' = Tail(timers)
  /\ pendingRequests' = Without(pendingRequests, Head(timers).id)
  /\ UNCHANGED <<otherModules, Logger, WorkerDefined, inputs, heap, worker,
                 workerRequestId, inbox, contexts, normalizationCache, calls>>
Timeout_KeepsRecord ==
  /\ timers # <<>>
  /\ LET requestId == Head(timers).id
         c == Head(timers).call
         raw == heap[calls[c].d]
         cacheKey == generateCacheKey(raw)
         computed == normalizeDatasetSync(raw)
         result == [ref |-> c, val |-> computed.val]
     IN /\ timers' = Tail(timers)
        /\ UNCHANGED pendingRequests
        /\ IF requestId \in DOMAIN pendingRequests
           THEN IF computed.threw
                THEN /\ calls' = Reject(calls, c, "timeout")
                     /\ UNCHANGED normalizationCache
                ELSE /\ calls' = Resolve(calls, c, result, "timeout")
                     /\ normalizationCache' =
                          CacheSet(normalizationCache, cacheKey, result)
           ELSE UNCHANGED <<normalizationCache, calls>>
  /\ UNCHANGED <<otherModules, Logger, WorkerDefined, inputs, heap, worker, workerRequestId, inbox, contexts>>
Timeout ==
  /\ timers # <<>>
  /\ LET requestId == Head(timers).id
         c == Head(timers).call
         raw == heap[calls[c].d]
         cacheKey == generateCacheKey(raw)
         computed == normalizeDatasetSync(raw)
         result == [ref |-> c, val |-> computed.val]
     IN /\ timers' = Tail(timers)
        /\ IF requestId \in DOMAIN pendingRequests
           THEN /\ pendingRequests' = Without(pendingRequests, requestId)
                /\ IF computed.threw
                   THEN /\ calls' = Reject(calls, c, "timeout")
                        /\ UNCHANGED normalizationCache
                   ELSE /\ calls' = Resolve(calls, c, result, "timeout")
                        /\ normalizationCache' =
                             CacheSet(normalizationCache, cacheKey, result)
           ELSE UNCHANGED <<pendingRequests, normalizationCache, calls>>
        /\ UNCHANGED <<otherModules, Logger, WorkerDefined, inputs, heap, worker, workerRequestId, inbox, contexts>>

Next ==
  \/ \E d \in inputs : Normalize(d)
  \/ \E d \in inputs, constructs \in BOOLEAN : NormalizeAsync(d, constructs)
  \/ \E m \in inbox : OnMessage(m)
  \/ \E w \in 1..contexts : OnError(w)
  \/ Timeout
  \/ clearCache

Spec == Init /\ [][Next]_vars

\* The oldest armed timeout callback runs: the step Timeout takes, seen on
\* the timer queue alone.
TimerFires == timers # <<>> /\ timers' = Tail(timers)

\* The page in which every armed timeout callback eventually runs
\* (setTimeout, line 234).
FairSpec == Init /\ [][Next]_vars /\ WF_timers(TimerFires)

\* The page that only makes synchronous calls: DM4.dataset.normalize(raw)
\* and DM4.dataset.clearCache().
SyncInit ==
  /\ Logger \in BOOLEAN
  /\ WorkerDefined \in BOOLEAN
  /\ normalizationCache = [k \in {} |-> NoResult]
  /\ worker = 0
  /\ workerRequestId = 0
  /\ pendingRequests = [i \in {} |-> [call |-> 0, cacheKey |-> NoKey]]
  /\ timers = <<>>
  /\ inbox = {}
  /\ contexts = 0
  /\ calls = <<>>
  /\ inputs \in SyncWorkloads
  /\ heap = [d \in inputs |-> Dataset(d)]
  /\ console = <<>>
  /\ criticalCalls = <<>>
  /\ NoStateManager

SyncNext ==
  \/ \E d \in inputs : Normalize(d)
  \/ clearCache

SyncSpec == SyncInit /\ [][SyncNext]_vars

----------------------------------------------------------------------------
(* dm4-logger.js: DM4.Logger.critical *)

\* A function value: calling it returns c[1] or throws c[1].
Returning(v) == [t |-> "fn", p |-> "return", c |-> <<v>>, ks |-> <<>>]
Throwing(e) == [t |-> "fn", p |-> "throw", c |-> <<e>>, ks |-> <<>>]

\* typeof v === "function"
TypeofFunction(v) == v.t = "fn"

\* fallback(): what the call gives back, or that it threw.
Invoke(f) == IF f.p = "throw" THEN [threw |-> TRUE, val |-> f.c[1]]
             ELSE [threw |-> FALSE, val |-> f.c[1]]

MaxCriticalCalls == 2

\* The arguments the callers of DM4.Logger.critical pass.
Messages == {"normalizeDataset: empty or invalid raw dataset"}
\* (The standalone normalizer passes its fallback function as the second
\* argument and no third one.)
Errors == {Undef, Str("boom"), Returning(Obj(<<"systems">>, <<EmptyObj>>))}
Fallbacks == {Returning(Obj(<<"systems">>, <<EmptyObj>>)), Returning(Null),
              Returning(Undef), Returning(Num("0")),
              Throwing(Str("fallback failed")),
              Undef, Null, Str("default"), EmptyObj}

\* One line of console.error output.
ErrorLine(text, data) == [text |-> text, data |-> data]

\* Logger.critical(message, error, fallback): the lines it writes and what
\* the caller gets, a value or an exception.
critical_Unguarded(message, error, fallback) ==
  LET first == ErrorLine("[DREADMARCH CRITICAL] " \o message, error)
  IN IF TypeofFunction(fallback)
     THEN [lines |-> <<first>>, threw |-> Invoke(fallback).threw,
           val |-> Invoke(fallback).val]
     ELSE [lines |-> <<first>>, threw |-> FALSE, val |-> Null]
critical(message, error, fallback) ==
  LET first == ErrorLine("[DREADMARCH CRITICAL] " \o message, error)
  IN IF TypeofFunction(fallback)
     THEN IF Invoke(fallback).threw
          THEN [lines |-> <<first, ErrorLine("[DREADMARCH CRITICAL] Fallback failed:",
                                             Invoke(fallback).val)>>,
                threw |-> FALSE, val |-> Null]
          ELSE [lines |-> <<first>>, threw |-> FALSE, val |-> Invoke(fallback).val]
     ELSE [lines |-> <<first>>, threw |-> FALSE, val |-> Null]

\* A caller invokes DM4.Logger.critical(message, error, fallback).
Critical(message, error, fallback) ==
  /\ Len(criticalCalls) < MaxCriticalCalls
  /\ LET out == critical(message, error, fallback)
     IN /\ console' = console \o out.lines
        /\ criticalCalls' = Append(criticalCalls,
             [message |-> message, error |-> error, fallback |-> fallback,
              threw |-> out.threw, val |-> out.val])
  /\ UNCHANGED <<datasetCore, containerVars>>

\* The page that has loaded dm4-logger.js and makes no normalize call.
LoggerInit ==
  /\ Logger = TRUE
  /\ WorkerDefined \in BOOLEAN
  /\ normalizationCache = [k \in {} |-> NoResult]
  /\ worker = 0
  /\ workerRequestId = 0
  /\ pendingRequests = [i \in {} |-> [call |-> 0, cacheKey |-> NoKey]]
  /\ timers = <<>>
  /\ inbox = {}
  /\ contexts = 0
  /\ calls = <<>>
  /\ inputs = {}
  /\ heap = [d \in inputs |-> Dataset(d)]
  /\ console = <<>>
  /\ criticalCalls = <<>>
  /\ NoStateManager

LoggerNext ==
  \E message \in Messages, error \in Errors, fallback \in Fallbacks :
    Critical(message, error, fallback)

LoggerSpec == LoggerInit /\ [][LoggerNext]_vars

----------------------------------------------------------------------------
(* src/core/dm4-dataset-core.js: the normalizer without cache and worker *)

\* normalizeDataset(raw) of src/core/dm4-dataset-core.js: the lines it makes
\* the Logger write and what the caller gets, a value or an exception.
\* Invalid input goes to DM4.Logger.critical(message, function), the function
\* in the place of the error argument and no third argument.  The forEach
\* over the systems has no try block: a merge that throws ends the call.
core_normalizeDataset(raw) ==
  IF InvalidRaw(raw)
  THEN critical("normalizeDataset: empty or invalid raw dataset",
                Returning(Obj(<<"systems">>, <<EmptyObj>>)), Undef)
  ELSE
    LET systemsSrc == SystemsSource(raw)
        pixelsSrc == PixelsSource(raw)
        gridSrc == GridSource(raw)
        sectorsSrc == SectorsSource(raw)
    IN IF \/ AnyGetterThrows(raw)
          \/ SectorListThrows(sectorsSrc)
          \/ AnyGetterThrows(systemsSrc)
       THEN [lines |-> <<>>, threw |-> TRUE, val |-> Undef]
       ELSE
         LET sectorBySystem == BuildSectorBySystem(EmptyObj, sectorsSrc, 1)
             out == NormalizeSystems(systemsSrc, pixelsSrc, gridSrc, sectorBySystem)
         IN IF Len(out.errors) > 0
            THEN [lines |-> <<>>, threw |-> TRUE, val |-> Undef]
            ELSE [lines |-> <<>>, threw |-> FALSE,
                  val |-> ObjectAssign(raw, Obj(<<"systems">>, <<out.systems>>))]

\* A caller invokes DM4.dataset.normalize(raw) of the standalone module.
StandaloneNormalize(d) ==
  /\ Len(calls) < MaxCalls
  /\ LET raw == heap[d]
         c == Len(calls) + 1
         out == core_normalizeDataset(raw)
     IN /\ calls' = Append(calls,
             IF out.threw
             THEN Call(FALSE, d, "threw", NoResult, "standalone", "", 0)
             ELSE Call(FALSE, d, "returned", [ref |-> c, val |-> out.val],
                       "standalone", "", 0))
        /\ console' = console \o out.lines
        /\ criticalCalls' =
             IF InvalidRaw(raw)
             THEN Append(criticalCalls,
                    [message |-> "normalizeDataset: empty or invalid raw dataset",
                     error |-> Returning(Obj(<<"systems">>, <<EmptyObj>>)),
                     fallback |-> Undef, threw |-> out.threw, val |-> out.val])
             ELSE criticalCalls
  /\ UNCHANGED <<containerVars, Logger, WorkerDefined, normalizationCache, worker,
                 workerRequestId, pendingRequests, timers, inbox, contexts,
                 inputs, heap>>

\* The page that has loaded dm4-logger.js and src/core/dm4-dataset-core.js
\* and calls the normalizer on up to MaxCalls of the datasets.
StandaloneInit ==
  /\ Logger = TRUE
  /\ WorkerDefined \in BOOLEAN
  /\ normalizationCache = [k \in {} |-> NoResult]
  /\ worker = 0
  /\ workerRequestId = 0
  /\ pendingRequests = [i \in {} |-> [call |-> 0, cacheKey |-> NoKey]]
  /\ timers = <<>>
  /\ inbox = {}
  /\ contexts = 0
  /\ calls = <<>>
  /\ inputs \in {S \in SUBSET DatasetNames : Cardinality(S) \in 1..MaxCalls}
  /\ heap = [d \in inputs |-> Dataset(d)]
  /\ console = <<>>
  /\ criticalCalls = <<>>
  /\ NoStateManager

StandaloneNext == \E d \in inputs : StandaloneNormalize(d)

StandaloneSpec == StandaloneInit /\ [][StandaloneNext]_vars

----------------------------------------------------------------------------
(* dm4-state.js: DM4.state.createStateManager(config, dataset, campaign) *)

\* The objects of the state tree.  A state object refers to its selection,
\* access and editor objects, and an editor object to its jobs array, by
\* reference; the other fields hold values.
SelectionCell(system) == [system |-> system]
AccessCell(value) == [value |-> value]
JobsCell(items) == [items |-> items]
EditorCell(enabled, jobs) == [enabled |-> enabled, jobs |-> jobs]
StateCell(config, dataset, campaign, access, selection, mode, editor) ==
  [config |-> config, dataset |-> dataset, campaign |-> campaign, access |-> access,
   selection |-> selection, mode |-> mode, editor |-> editor]

\* What a reader of the state object ref sees, followed through the references.
Deref(objs, ref) ==
  LET s == objs[ref]
  IN [config |-> s.config, dataset |-> s.dataset, campaign |-> s.campaign,
      access |-> objs[s.access].value,
      selection |-> [system |-> objs[s.selection].system],
      mode |-> s.mode,
      editor |-> [enabled |-> objs[s.editor].enabled,
                  jobs |-> objs[objs[s.editor].jobs].items]]

\* mode: "navcom" | "strategic"
Modes == {Str("navcom"), Str("strategic")}

\* The batch delay, in ms.
BatchDelay == 10

MaxActions == 3
MaxTime == 20

\* The values the calls of a page pass.
Job(op) == Obj(<<"target_dataset", "op_type", "payload", "created_at">>,
               <<Str("main"), Str(op), Obj(<<"system_id">>, <<Str("sol")>>), Num("1")>>)
Job1 == Job("change_sector")
Job2 == Job("rename_system")
InitialDataset == Obj(<<"systems">>, <<Obj(<<"sol">>, <<SolRecord>>)>>)
PatchedDataset == Obj(<<"systems">>, <<Obj(<<"sol">>, <<Put(SolRecord, "sector", Str("rim"))>>)>>)
Act(op, arg) == [op |-> op, arg |-> arg]

\* The pages: the scopes their views subscribe with and the calls they make.
Sessions ==
  {[scopes |-> << <<>>, <<"selection">>, <<"mode">> >>,
    acts |-> {Act("selectSystem", Str("a")), Act("selectSystem", Str("b")),
              Act("selectSystem", Str("c")), Act("setMode", Str("strategic")),
              Act("setMode", Str("tactical")), Act("getState", Undef)}],
   [scopes |-> << <<"editor">>, <<"editor", "jobs">>, <<"selection">> >>,
    acts |-> {Act("setEditorEnabled", Bool("true")), Act("addEditorJob", Job1),
              Act("addEditorJob", Job2), Act("clearEditorJobs", Undef),
              Act("selectSystem", Null), Act("getState", Undef)}],
   [scopes |-> << <<"dataset">>, <<"access">>, <<"campaign">>, <<"editor", "jobs">> >>,
    acts |-> {Act("setDataset", PatchedDataset), Act("setCampaign", Obj(<<"name">>, <<Str("war")>>)),
              Act("setAccess", Obj(<<"role">>, <<Str("gm")>>)),
              Act("setAccess", Obj(<<"edit">>, <<Bool("true")>>)),
              Act("setMode", Num("1")), Act("getState", Undef)}]}

\* The state manager of a page, created with its views subscribed.
CreateStateManager(config, dataset, campaign) ==
  /\ session \in Sessions
  /\ objects = <<SelectionCell(Null), AccessCell(EmptyObj), JobsCell(<<>>),
                 EditorCell(Bool("false"), 3),
                 StateCell(config, dataset, campaign, 2, 1, Str("navcom"), 4)>>
  /\ state = 5
  /\ subscribers = session.scopes
  /\ pendingPaths = <<>>
  /\ batchTimer = NoTimer
  /\ now = 0
  /\ invocations = [s \in DOMAIN session.scopes |-> [count |-> 0, last |-> 0, at |-> 0]]
  /\ snapshots = <<>>
  /\ diagnostics = <<>>
  /\ history = <<>>

\* A scope matches a changed path when the path equals the scope or has it
\* as a prefix.
ScopeMatches_EitherPrefix(scope, path) ==
  \A i \in 1..Len(scope) : i <= Len(path) => scope[i] = path[i]
ScopeMatches(scope, path) ==
  /\ Len(scope) <= Len(path)
  /\ \A i \in 1..Len(scope) : scope[i] = path[i]

\* The handler s is due a call for the pending batch.
Notified(s) ==
  \/ subscribers[s] = <<>>
  \/ \E i \in 1..Len(pendingPaths) : ScopeMatches(subscribers[s], pendingPaths[i])

\* batchNotify(path): add the path to the pending batch; the first path of a
\* batch arms the timer.  No handler is called.
batchNotify_Debounce(path) ==
  /\ pendingPaths' = Append(pendingPaths, path)
  /\ batchTimer' = now + BatchDelay
  /\ UNCHANGED invocations
batchNotify(path) ==
  /\ pendingPaths' = Append(pendingPaths, path)
  /\ batchTimer' = IF batchTimer = NoTimer THEN now + BatchDelay ELSE batchTimer
  /\ UNCHANGED invocations

\* The page makes the call a.
Perform(a) ==
  /\ Len(history) < MaxActions
  /\ a \in session.acts
  /\ history' = Append(history, [op |-> a.op, arg |-> a.arg, at |-> now])
  /\ UNCHANGED <<datasetCore, loggerVars, subscribers, now, session>>

\* The state object that replaces the current one: a copy with one field set.
\* It is stored after the new objects the action has made.
Replace(made, field, value) ==
  /\ objects' = objects \o made \o <<[objects[state] EXCEPT ![field] = value]>>
  /\ state' = Len(objects) + Len(made) + 1

getState ==
  /\ Perform(Act("getState", Undef))
  /\ snapshots' = Append(snapshots, [ref |-> state, val |-> Deref(objects, state)])
  /\ UNCHANGED <<objects, state, pendingPaths, batchTimer, invocations, diagnostics>>

selectSystem_InPlace(id) ==
  /\ Perform(Act("selectSystem", id))
  /\ objects' = [objects EXCEPT ![objects[state].selection] = SelectionCell(id)]
  /\ UNCHANGED state
  /\ batchNotify(<<"selection">>)
  /\ UNCHANGED <<snapshots, diagnostics>>
selectSystem(id) ==
  /\ Perform(Act("selectSystem", id))
  /\ Replace(<<SelectionCell(id)>>, "selection", Len(objects) + 1)
  /\ batchNotify(<<"selection">>)
  /\ UNCHANGED <<snapshots, diagnostics>>

setMode_Unchecked(mode) ==
  /\ Perform(Act("setMode", mode))
  /\ Replace(<<>>, "mode", mode)
  /\ batchNotify(<<"mode">>)
  /\ UNCHANGED <<snapshots, diagnostics>>
setMode(mode) ==
  /\ Perform(Act("setMode", mode))
  /\ IF mode \in Modes
     THEN /\ Replace(<<>>, "mode", mode)
          /\ batchNotify(<<"mode">>)
          /\ UNCHANGED diagnostics
     ELSE /\ diagnostics' = Append(diagnostics, "setMode: invalid mode")
          /\ UNCHANGED <<objects, state, pendingPaths, batchTimer, invocations>>
  /\ UNCHANGED snapshots

setDataset(dataset) ==
  /\ Perform(Act("setDataset", dataset))
  /\ Replace(<<>>, "dataset", dataset)
  /\ batchNotify(<<"dataset">>)
  /\ UNCHANGED <<snapshots, diagnostics>>

setCampaign(campaign) ==
  /\ Perform(Act("setCampaign", campaign))
  /\ Replace(<<>>, "campaign", campaign)
  /\ batchNotify(<<"campaign">>)
  /\ UNCHANGED <<snapshots, diagnostics>>

setAccess(partial) ==
  /\ Perform(Act("setAccess", partial))
  /\ Replace(<<AccessCell(ObjectAssign(objects[objects[state].access].value, partial))>>,
             "access", Len(objects) + 1)
  /\ batchNotify(<<"access">>)
  /\ UNCHANGED <<snapshots, diagnostics>>

setEditorEnabled(enabled) ==
  /\ Perform(Act("setEditorEnabled", enabled))
  /\ Replace(<<EditorCell(enabled, objects[objects[state].editor].jobs)>>,
             "editor", Len(objects) + 1)
  /\ batchNotify(<<"editor">>)
  /\ UNCHANGED <<snapshots, diagnostics>>

\* The jobs array of the current state.
Jobs == objects[objects[objects[state].editor].jobs].items

addEditorJob_Prepend(job) ==
  /\ Perform(Act("addEditorJob", job))
  /\ Replace(<<JobsCell(<<job>> \o Jobs),
               EditorCell(objects[objects[state].editor].enabled, Len(objects) + 1)>>,
             "editor", Len(objects) + 2)
  /\ batchNotify(<<"editor", "jobs">>)
  /\ UNCHANGED <<snapshots, diagnostics>>
addEditorJob(job) ==
  /\ Perform(Act("addEditorJob", job))
  /\ Replace(<<JobsCell(Append(Jobs, job)),
               EditorCell(objects[objects[state].editor].enabled, Len(objects) + 1)>>,
             "editor", Len(objects) + 2)
  /\ batchNotify(<<"editor", "jobs">>)
  /\ UNCHANGED <<snapshots, diagnostics>>

clearEditorJobs ==
  /\ Perform(Act("clearEditorJobs", Undef))
  /\ Replace(<<JobsCell(<<>>),
               EditorCell(objects[objects[state].editor].enabled, Len(objects) + 1)>>,
             "editor", Len(objects) + 2)
  /\ batchNotify(<<"editor", "jobs">>)
  /\ UNCHANGED <<snapshots, diagnostics>>

\* The batch timer fires: every handler due a call is called once with the
\* current state, and the batch is cleared.
Deliver_PerChange ==
  /\ batchTimer # NoTimer
  /\ now = batchTimer
  /\ invocations' =
       [s \in DOMAIN subscribers |->
          IF Notified(s)
          THEN [count |-> invocations[s].count + Len(pendingPaths),
                last |-> state, at |-> now]
          ELSE invocations[s]]
  /\ pendingPaths' = <<>>
  /\ batchTimer' = NoTimer
  /\ UNCHANGED <<datasetCore, loggerVars, objects, state, subscribers, now, snapshots,
                 diagnostics, history, session>>
Deliver ==
  /\ batchTimer # NoTimer
  /\ now = batchTimer
  /\ invocations' =
       [s \in DOMAIN subscribers |->
          IF Notified(s)
          THEN [count |-> invocations[s].count + 1, last |-> state, at |-> now]
          ELSE invocations[s]]
  /\ pendingPaths' = <<>>
  /\ batchTimer' = NoTimer
  /\ UNCHANGED <<datasetCore, loggerVars, objects, state, subscribers, now, snapshots,
                 diagnostics, history, session>>

\* Time passes, up to the moment the armed timer is due.
Tick(dt) ==
  /\ now + dt <= MaxTime
  /\ batchTimer # NoTimer => now + dt <= batchTimer
  /\ now' = now + dt
  /\ UNCHANGED <<datasetCore, loggerVars, objects, state, subscribers, pendingPaths,
                 batchTimer, invocations, snapshots, diagnostics, history, session>>

ContainerInit ==
  /\ Logger = TRUE
  /\ WorkerDefined = FALSE
  /\ normalizationCache = [k \in {} |-> NoResult]
  /\ worker = 0
  /\ workerRequestId = 0
  /\ pendingRequests = [i \in {} |-> [call |-> 0, cacheKey |-> NoKey]]
  /\ timers = <<>>
  /\ inbox = {}
  /\ contexts = 0
  /\ calls = <<>>
  /\ inputs = {}
  /\ heap = [d \in inputs |-> Dataset(d)]
  /\ console = <<>>
  /\ criticalCalls = <<>>
  /\ CreateStateManager(EmptyObj, InitialDataset, EmptyObj)

ContainerNext ==
  \/ getState
  \/ \E a \in session.acts : a.op = "selectSystem" /\ selectSystem(a.arg)
  \/ \E a \in session.acts : a.op = "setMode" /\ setMode(a.arg)
  \/ \E a \in session.acts : a.op = "setDataset" /\ setDataset(a.arg)
  \/ \E a \in session.acts : a.op = "setCampaign" /\ setCampaign(a.arg)
  \/ \E a \in session.acts : a.op = "setAccess" /\ setAccess(a.arg)
  \/ \E a \in session.acts : a.op = "setEditorEnabled" /\ setEditorEnabled(a.arg)
  \/ \E a \in session.acts : a.op = "addEditorJob" /\ addEditorJob(a.arg)
  \/ clearEditorJobs
  \/ Deliver
  \/ \E dt \in {BatchDelay \div 2, BatchDelay} : Tick(dt)

ContainerSpec == ContainerInit /\ [][ContainerNext]_vars

----------------------------------------------------------------------------
(* Vocabulary of the properties *)

RawOf(c) == heap[calls[c].d]
KeyOf(c) == generateCacheKey(RawOf(c))
Done(c) == calls[c].status \in {"returned", "resolved"}
\* the result of call c was computed by normalizeDatasetSync for this call
Computed(c) == Done(c) /\ calls[c].how \in {"sync", "timeout"}
Present(v) == v.t \notin {"undef", "null"}
EmptyDataset == Obj(<<"systems">>, <<EmptyObj>>)
Max(S) == CHOOSE x \in S : \A y \in S : y <= x

\* the ids a side table or a sector list mentions
ListedIds(sectors) ==
  UNION {{PropKey(sectors.c[j].c[i]) : i \in 1..Len(sectors.c[j].c)} :
           j \in 1..Len(sectors.c)}
SideIds(raw) ==
  KeySet(Get(raw, "system_pixels")) \cup KeySet(Get(raw, "endpoint_pixels"))
    \cup KeySet(Get(raw, "system_grid")) \cup ListedIds(Get(raw, "sectors"))
\* the ids of raw.systems whose record cannot be merged
FailedIds(raw) ==
  {id \in KeySet(Get(raw, "systems")) :
     AnyGetterThrows(Get(Get(raw, "systems"), id))}

\* the sector the reverse index holds for id
SectorsListing(raw, id) ==
  {j \in 1..Len(Get(raw, "sectors").ks) :
     \E i \in 1..Len(Get(raw, "sectors").c[j].c) :
        PropKey(Get(raw, "sectors").c[j].c[i]) = id}
SectorIndexed(raw, id) ==
  IF SectorsListing(raw, id) = {} THEN Undef
  ELSE Str(Get(raw, "sectors").ks[Max(SectorsListing(raw, id))])
\* the pixel table of the call
PixelTable(raw) ==
  IF Present(Get(raw, "system_pixels")) THEN Get(raw, "system_pixels")
  ELSE Get(raw, "endpoint_pixels")
\* own value first, else the side-table value
OwnFirst(own, side) == IF Present(own) THEN own ELSE side

----------------------------------------------------------------------------
(* The claims *)

\* C1 (as claimed): when a synchronous normalize call follows a synchronous
\* call that returned, on a structurally-equal serializable input, and the
\* entry the first call left is still in the cache, the second call returns
\* the same object instance and both inputs share one cache entry.
C1_StructurallyEqualInputSameInstance ==
  [][LET n == Len(calls)
         k1 == KeyOf(n)
         k2 == generateCacheKey(Dataset(calls'[n + 1].d))
     IN (/\ n >= 1
         /\ Len(calls') = n + 1
         /\ ~calls[n].async /\ calls[n].status = "returned"
         /\ ~calls'[n + 1].async
         /\ Truthy(k1) /\ Truthy(k2)
         /\ DeepEqual(RawOf(n), Dataset(calls'[n + 1].d))
         /\ CacheHas(k1) /\ normalizationCache[k1.p] = calls[n].result)
        => /\ calls'[n + 1].status = "returned"
           /\ calls'[n + 1].result.ref = calls[n].result.ref
           /\ k1 = k2
           /\ normalizationCache' = normalizationCache]_vars

\* C2: a result computed by the normalizer for an object input has in
\* systems exactly the ids of raw.systems, less the ids whose merge failed;
\* an id known only to a side table or a sector list is not in it.
C2_SystemsKeysAreRawSystemsKeys ==
  \A c \in 1..Len(calls) :
    (Computed(c) /\ ~InvalidRaw(RawOf(c))) =>
      LET out == Get(calls[c].result.val, "systems")
          ids == KeySet(Get(RawOf(c), "systems"))
      IN /\ KeySet(out) = ids \ FailedIds(RawOf(c))
         /\ \A id \in SideIds(RawOf(c)) \ ids : ~HasKey(out, id)
C2_Witness ==
  \E c \in 1..Len(calls) :
    /\ Computed(c) /\ calls[c].d = "own"
    /\ "ghost" \in SideIds(RawOf(c))
    /\ KeySet(Get(calls[c].result.val, "systems")) = {"a", "b"}

\* C3 (as claimed): a synchronous normalize call returns a value, it never
\* throws, whatever its input.
C3_SyncNormalizeNeverThrows ==
  \A c \in 1..Len(calls) : ~calls[c].async => calls[c].status = "returned"

\* C4 (as claimed): in a computed result every system is its base record
\* plus coords, grid and sector, each the own value when the record has one,
\* else the value of the pixel table, system_grid or the sector index at its
\* id, else undefined.
C4_OwnValueElseSideTable ==
  \A c \in 1..Len(calls) :
    (Computed(c) /\ ~InvalidRaw(RawOf(c))) =>
      LET raw == RawOf(c)
          out == Get(calls[c].result.val, "systems")
      IN \A id \in KeySet(out) :
           LET own == OrElse(Get(Get(raw, "systems"), id), EmptyObj)
           IN DeepEqual(Get(out, id),
                ObjectAssign(own, Obj(<<"coords", "grid", "sector">>,
                  <<OwnFirst(Get(own, "coords"), Get(PixelTable(raw), id)),
                    OwnFirst(Get(own, "grid"), Get(Get(raw, "system_grid"), id)),
                    OwnFirst(Get(own, "sector"), SectorIndexed(raw, id))>>)))

\* C5 (as claimed): a call on a non-object input never throws and is never
\* rejected, in either mode, and what it returns or resolves with is
\* deep-equal to {systems: {}}.
C5_NonObjectGivesEmptyDataset ==
  \A c \in 1..Len(calls) :
    InvalidRaw(RawOf(c)) =>
      /\ calls[c].status \in {"returned", "resolved", "pending"}
      /\ Done(c) => DeepEqual(calls[c].result.val, EmptyDataset)

\* the call that was dispatched with correlation id i
CallOf(i) == CHOOSE c \in 1..Len(calls) : calls[c].req = i
Dispatched(i) == \E c \in 1..Len(calls) : calls[c].req = i
\* the step is the delivery of the reply to request m
Delivers(m) == m \in inbox /\ inbox' = inbox \ {m}
OthersUnchanged(c) ==
  /\ Len(calls') = Len(calls)
  /\ \A c2 \in 1..Len(calls) : c2 # c => calls'[c2] = calls[c2]

\* C6 (as claimed): with Worker undefined an async call resolves with a
\* result deep-equal to what synchronous normalize(raw) returns, and the
\* cache is updated as the synchronous path updates it.
C6_NoWorkerAsyncResolvesLikeSync ==
  [][LET n == Len(calls)
         cur == calls'[n + 1]
         raw == Dataset(cur.d)
         cacheKey == generateCacheKey(raw)
     IN (Len(calls') = n + 1 /\ cur.async /\ ~WorkerDefined) =>
          /\ cur.status = "resolved"
          /\ IF CacheHas(cacheKey)
             THEN /\ cur.result = normalizationCache[cacheKey.p]
                  /\ normalizationCache' = normalizationCache
             ELSE /\ ~normalizeDatasetSync(raw).threw
                  /\ DeepEqual(cur.result.val, normalizeDatasetSync(raw).val)
                  /\ normalizationCache' =
                       CacheSet(normalizationCache, cacheKey, cur.result)]_vars

C8_TimeoutResolvesWithSyncResult ==
  [][(/\ timers # <<>>
      /\ timers' = Tail(timers)
      /\ Head(timers).id \in DOMAIN pendingRequests) =>
       LET c == Head(timers).call
       IN /\ pendingRequests' = Without(pendingRequests, Head(timers).id)
          /\ OthersUnchanged(c)
          /\ calls'[c].status = "resolved"
          /\ ~normalizeDatasetSync(RawOf(c)).threw
          /\ DeepEqual(calls'[c].result.val, normalizeDatasetSync(RawOf(c)).val)
          /\ normalizationCache' =
               CacheSet(normalizationCache, KeyOf(c), calls'[c].result)]_vars

\* C9: a reply whose id is not in the pending map, or whose call is already
\* settled (by its timeout, by a fault, by an earlier reply), is dropped:
\* the cache, the pending map and every promise stay as they are.
C9_StaleReplyIsDiscarded ==
  [][\A m \in inbox :
       (/\ Delivers(m)
        /\ \/ m.id \notin DOMAIN pendingRequests
           \/ ~Dispatched(m.id)
           \/ calls[CallOf(m.id)].status # "pending") =>
         /\ normalizationCache' = normalizationCache
         /\ pendingRequests' = pendingRequests
         /\ calls' = calls]_vars
\* a call fell back on its timeout, its reply came afterwards, and the cache
\* still holds the object the fallback computed
C9_Witness ==
  \E c \in 1..Len(calls) :
    /\ calls[c].how = "timeout" /\ calls[c].status = "resolved"
    /\ \A m \in inbox : m.id # calls[c].req
    /\ CacheHas(KeyOf(c)) /\ normalizationCache[KeyOf(c).p] = calls[c].result

C11_NoDispatchAfterUnavailable ==
  \A i, j \in 1..Len(calls) :
    (/\ i < j
     /\ calls[i].async /\ calls[i].init \in {"unsupported", "failed"}
     /\ calls[j].async) =>
      /\ calls[j].req = 0
      /\ calls[j].how \in {"hit", "sync"}

\* the object o without the properties named in ks
RECURSIVE Omit(_, _, _)
Omit(o, ks, i) ==
  IF i > Len(o.ks) THEN EmptyObj
  ELSE LET rest == Omit(o, ks, i + 1)
       IN IF o.ks[i] \in ks THEN rest
          ELSE Obj(<<o.ks[i]>> \o rest.ks, <<o.c[i]>> \o rest.c)
\* raw with the failing records taken out of raw.systems
WithoutFailed(raw) ==
  Put(raw, "systems", Omit(Get(raw, "systems"), FailedIds(raw), 1))
ErrorsOf(val) == Get(val, "_normalizationErrors")

\* C12 (as claimed): when the merge of a system throws, the computed result
\* leaves that system out of systems, holds every other system with the
\* value it has when the failing records are not in raw at all, and carries
\* an errors list with exactly one entry per failed system; the list is on
\* the result if and only if some merge failed.
C12_FailedSystemDroppedAndReported ==
  \A c \in 1..Len(calls) :
    (Computed(c) /\ ~InvalidRaw(RawOf(c))) =>
      LET raw == RawOf(c)
          val == calls[c].result.val
          out == Get(val, "systems")
          failed == FailedIds(raw)
          clean == Get(normalizeDatasetSync(WithoutFailed(raw)).val, "systems")
      IN /\ \A id \in failed : ~HasKey(out, id)
         /\ \A id \in KeySet(Get(raw, "systems")) \ failed :
              HasKey(out, id) /\ Get(out, id) = Get(clean, id)
         /\ HasKey(val, "_normalizationErrors") <=> failed # {}
         /\ failed # {} =>
              /\ Len(ErrorsOf(val).c) = Cardinality(failed)
              /\ {Get(ErrorsOf(val).c[i], "systemId").p :
                    i \in 1..Len(ErrorsOf(val).c)} = failed

\* C13: a call on an input whose serialization throws leaves the cache as
\* it is, when it is made and when it is settled later; when it is served
\* in the call (synchronous mode, or no context to dispatch to) it returns
\* the normalized dataset; and a later synchronous call on a serializable
\* input that misses the cache stores its result under its key.
C13_UnserializableInputSkipsCache ==
  [][LET n == Len(calls)
         cur == calls'[n + 1]
         raw == heap[cur.d]
     IN /\ (Len(calls') = n + 1 /\ StringifyThrows(raw)) =>
             /\ normalizationCache' = normalizationCache
             /\ cur.how # "hit"
             /\ (~cur.async \/ cur.how = "sync") =>
                  /\ cur.status \in {"returned", "resolved"}
                  /\ ~normalizeDatasetSync(raw).threw
                  /\ cur.result.val = normalizeDatasetSync(raw).val
        /\ \A c \in 1..n :
             (/\ Len(calls') = n /\ StringifyThrows(RawOf(c))
              /\ calls[c].status = "pending" /\ calls'[c].status # "pending") =>
               normalizationCache' = normalizationCache
        /\ (/\ Len(calls') = n + 1 /\ ~cur.async /\ cur.how = "sync"
            /\ \E i \in 1..n : StringifyThrows(RawOf(i))
            /\ ~StringifyThrows(raw) /\ raw.t # "undef"
            /\ cur.status = "returned") =>
             /\ Stringify(raw) \in DOMAIN normalizationCache'
             /\ normalizationCache'[Stringify(raw)] = cur.result
             /\ \A k \in DOMAIN normalizationCache :
                  /\ k \in DOMAIN normalizationCache'
                  /\ normalizationCache'[k] = normalizationCache[k]]_vars
\* normalize of the self-referential dataset returned its merged systems
\* and cached nothing; the next call, on a serializable dataset, was cached
C13_Witness ==
  /\ Len(calls) = 2
  /\ calls[1].d = "circular" /\ ~calls[1].async /\ calls[1].status = "returned"
  /\ Get(Get(Get(calls[1].result.val, "systems"), "sol"), "coords") = Pair("100", "200")
  /\ calls[2].d = "endpoints" /\ ~calls[2].async /\ calls[2].how = "sync"
  /\ DOMAIN normalizationCache = {Stringify(RawOf(2))}

\* the three components of the documented fingerprint
SystemCount(raw) == Len(SystemsSource(raw).ks)
SampledIds(raw) ==
  SubSeq(SystemsSource(raw).ks, 1,
         IF SystemCount(raw) < 10 THEN SystemCount(raw) ELSE 10)
PixelTag(raw) ==
  IF Truthy(Get(raw, "system_pixels")) THEN "system_pixels"
  ELSE IF Truthy(Get(raw, "endpoint_pixels")) THEN "endpoint_pixels"
  ELSE "none"
SameFingerprint(a, b) ==
  /\ SystemCount(a) = SystemCount(b)
  /\ SampledIds(a) = SampledIds(b)
  /\ PixelTag(a) = PixelTag(b)
Large(raw) == ~InvalidRaw(raw) /\ SystemCount(raw) >= FingerprintThreshold

\* C14 (as claimed): when a synchronous call is made on a dataset of 100
\* or more systems and the cache holds the result of an earlier call on a
\* dataset of 100 or more systems with the same system count, the same
\* first 10 ids and the same pixel-source tag, the call is served that
\* entry and the cache is left as it is; the key of a dataset of fewer than
\* 100 systems is its full serialized content.
C14_LargeInputsShareFingerprintEntry ==
  [][LET n == Len(calls)
         cur == calls'[n + 1]
         raw == heap[cur.d]
     IN (Len(calls') = n + 1 /\ ~cur.async) =>
          /\ \A i \in 1..n :
               (/\ Large(raw) /\ Large(RawOf(i))
                /\ SameFingerprint(raw, RawOf(i))
                /\ calls[i].status = "returned"
                /\ Truthy(KeyOf(i)) /\ KeyOf(i).p \in DOMAIN normalizationCache
                /\ normalizationCache[KeyOf(i).p] = calls[i].result) =>
                 /\ cur.how = "hit"
                 /\ cur.result = calls[i].result
                 /\ normalizationCache' = normalizationCache
          /\ (~Large(raw) /\ ~StringifyThrows(raw) /\ raw.t # "undef") =>
               generateCacheKey(raw) = Str(Stringify(raw))]_vars

\* C15 (as claimed): when a call is made on a dataset of fewer than 100
\* systems, and an earlier call returned for a dataset of fewer than 100
\* systems with other contents, the call does not return the object the
\* earlier call returned, and when the earlier result is still cached the
\* two datasets have an entry each.
C15_DifferentContentsDifferentEntries ==
  [][LET n == Len(calls)
         cur == calls'[n + 1]
         raw == heap[cur.d]
     IN Len(calls') = n + 1 =>
          \A i \in 1..n :
            (/\ ~Large(raw) /\ ~Large(RawOf(i))
             /\ ~InvalidRaw(raw) /\ ~InvalidRaw(RawOf(i))
             /\ ~DeepEqual(raw, RawOf(i))
             /\ calls[i].status = "returned"
             /\ cur.status = "returned") =>
              /\ cur.result.ref # calls[i].result.ref
              /\ (/\ Truthy(KeyOf(i)) /\ KeyOf(i).p \in DOMAIN normalizationCache
                  /\ normalizationCache[KeyOf(i).p] = calls[i].result) =>
                   /\ generateCacheKey(raw) # KeyOf(i)
                   /\ Cardinality(DOMAIN normalizationCache') >= 2]_vars

\* the objects the calls made so far have returned or resolved with
Instances == {calls[i].result.ref : i \in {c \in 1..Len(calls) : Done(c)}}

\* C16: a step that takes a key out of the cache is clearCache(): it
\* empties the cache, getCacheStats() then reports size 0, and nothing else
\* changes; every other step keeps every cached key.  A call on an input
\* that an earlier call was served for, made when the cache no longer has
\* its key, is not served from the cache: what it returns, or is later
\* resolved with, is an object no call has returned before, and a
\* synchronous call caches that object again.
C16_EntriesRemovedOnlyByClear ==
  [][/\ (\E k \in DOMAIN normalizationCache : k \notin DOMAIN normalizationCache') =>
          /\ DOMAIN normalizationCache' = {}
          /\ getCacheStats'.size = 0
          /\ UNCHANGED <<calls, worker, workerRequestId, pendingRequests,
                         timers, inbox, contexts>>
     /\ LET n == Len(calls)
            cur == calls'[n + 1]
            cacheKey == generateCacheKey(heap[cur.d])
        IN (/\ Len(calls') = n + 1
            /\ Truthy(cacheKey) /\ cacheKey.p \notin DOMAIN normalizationCache
            /\ \E i \in 1..n : Done(i) /\ KeyOf(i) = cacheKey) =>
             /\ cur.how # "hit"
             /\ cur.status \in {"returned", "resolved", "pending"}
             /\ cur.status # "pending" =>
                  /\ cur.how = "sync"
                  /\ cur.result.ref \notin Instances
                  /\ normalizationCache'[cacheKey.p] = cur.result
             /\ ~cur.async => cur.status = "returned"
     /\ \A c \in 1..Len(calls) :
          (/\ Len(calls') = Len(calls)
           /\ calls[c].status = "pending" /\ calls'[c].status = "resolved") =>
            calls'[c].result.ref \notin Instances]_vars
\* the same input was normalized, the cache cleared, and the input
\* normalized again: two computed objects, the second one cached
C16_Witness ==
  /\ Len(calls) = 2
  /\ calls[1].d = calls[2].d
  /\ calls[1].status = "returned" /\ calls[1].how = "sync"
  /\ calls[2].status = "returned" /\ calls[2].how = "sync"
  /\ calls[1].result.ref # calls[2].result.ref
  /\ Truthy(KeyOf(2))
  /\ getCacheStats.size = 1
  /\ normalizationCache[KeyOf(2).p] = calls[2].result

C18_PixelSourceChosenOncePerCall ==
  \A c \in 1..Len(calls) :
    (Computed(c) /\ ~InvalidRaw(RawOf(c))) =>
      LET raw == RawOf(c)
          out == Get(calls[c].result.val, "systems")
          own(id) == Get(OrElse(Get(Get(raw, "systems"), id), EmptyObj), "coords")
      IN /\ PixelsSource(raw) =
              IF Present(Get(raw, "system_pixels")) THEN Get(raw, "system_pixels")
              ELSE IF Present(Get(raw, "endpoint_pixels"))
                   THEN Get(raw, "endpoint_pixels")
                   ELSE EmptyObj
         /\ \A id \in KeySet(out) :
              /\ Get(Get(out, id), "coords") \in {own(id), Get(PixelTable(raw), id)}
              /\ (/\ Present(Get(raw, "system_pixels"))
                  /\ ~HasKey(Get(raw, "system_pixels"), id)) =>
                   Get(Get(out, id), "coords") = own(id)
              /\ (~Present(own(id)) /\ HasKey(PixelTable(raw), id)) =>
                   Get(Get(out, id), "coords") = Get(PixelTable(raw), id)
\* system b has no coords of its own, system_pixels does not list it and
\* endpoint_pixels does: b is left without coords
C18_Witness ==
  \E c \in 1..Len(calls) :
    /\ Computed(c) /\ calls[c].d = "own"
    /\ ~HasKey(Get(RawOf(c), "system_pixels"), "b")
    /\ Get(Get(RawOf(c), "endpoint_pixels"), "b") = Pair("7", "7")
    /\ HasKey(Get(calls[c].result.val, "systems"), "b")
    /\ Get(Get(Get(calls[c].result.val, "systems"), "b"), "coords") = Undef

\* the value the side tables of raw hold for field f of system id
SideValue(raw, id, f) ==
  CASE f = "coords" -> Get(PixelTable(raw), id)
    [] f = "grid" -> Get(Get(raw, "system_grid"), id)
    [] f = "sector" -> SectorIndexed(raw, id)

\* C19 (as claimed): in a computed result a system whose own coords, grid
\* or sector is present (not null, not undefined) has that own value, also
\* when the value is falsy (0, false, "") and a side table has an entry for
\* the system; a system whose own field is absent has the side-table
\* value, and undefined when no side table has one.
C19_FalsyOwnValueIsKept ==
  \A c \in 1..Len(calls) :
    (Computed(c) /\ ~InvalidRaw(RawOf(c))) =>
      LET raw == RawOf(c)
          out == Get(calls[c].result.val, "systems")
      IN \A id \in KeySet(out), f \in {"coords", "grid", "sector"} :
           LET own == Get(OrElse(Get(Get(raw, "systems"), id), EmptyObj), f)
           IN Get(Get(out, id), f) =
                IF Present(own) THEN own ELSE SideValue(raw, id, f)

C21_WorkerErrorFallsBackToSync ==
  \A c \in 1..Len(calls) :
    (calls[c].how \in {"fault", "reply"} /\ calls[c].status # "pending") =>
      /\ calls[c].status = "resolved"
      /\ calls[c].how = "fault" =>
           DeepEqual(calls[c].result.val, normalizeDatasetSync(RawOf(c)).val)

\* C22: DM4.Logger.critical never propagates a failure. It returns what
\* fallback() returns when fallback is a function that returns normally,
\* null when fallback throws, and null when fallback is not a function.
C22_CriticalNeverPropagates ==
  \A i \in 1..Len(criticalCalls) :
    LET call == criticalCalls[i]
        f == call.fallback
    IN /\ ~ call.threw
       /\ (f.t = "fn" /\ f.p = "return") => call.val = f.c[1]
       /\ (f.t = "fn" /\ f.p = "throw") => call.val = Null
       /\ f.t # "fn" => call.val = Null

\* A fallback that throws was called and the caller got null; another call
\* got its fallback's value.
C22_Witness ==
  /\ \E i \in 1..Len(criticalCalls) :
       /\ criticalCalls[i].fallback = Throwing(Str("fallback failed"))
       /\ criticalCalls[i].val = Null
       /\ ~ criticalCalls[i].threw
  /\ \E i \in 1..Len(criticalCalls) :
       /\ criticalCalls[i].fallback = Returning(Obj(<<"systems">>, <<EmptyObj>>))
       /\ criticalCalls[i].val = Obj(<<"systems">>, <<EmptyObj>>)

\* C23 (as claimed): what a call returns depends on the content of its
\* input only.  Whatever the cache holds, whatever the counter is, whether
\* a context exists and whenever the call settles, the dataset it returns is
\* deep-equal to the one the same input gets in a page without history (the
\* normalization of the input), and two calls on structurally-equal inputs
\* return deep-equal datasets.
C23_ResultDependsOnlyOnContent ==
  \A c \in 1..Len(calls) :
    Done(c) =>
      /\ DeepEqual(calls[c].result.val, normalizeDatasetSync(RawOf(c)).val)
      /\ \A c2 \in 1..Len(calls) :
           (Done(c2) /\ DeepEqual(RawOf(c), RawOf(c2))) =>
             DeepEqual(calls[c].result.val, calls[c2].result.val)

\* C30 (as claimed): a step other than clearCache() never replaces an
\* existing cache entry, and a call that settles while the entry an earlier
\* call on the same input left is still cached gets that same instance,
\* whether it is settled in the call, by a worker reply or by its timeout.
C30_EntryNeverReplaced ==
  [][/\ \A k \in DOMAIN normalizationCache \cap DOMAIN normalizationCache' :
          normalizationCache'[k] = normalizationCache[k]
     /\ \A c \in 1..Len(calls') :
          (/\ calls'[c].status \in {"returned", "resolved"}
           /\ c \in 1..Len(calls) => ~Done(c)) =>
            \A c0 \in 1..Len(calls) :
              (/\ Done(c0)
               /\ calls[c0].d = calls'[c].d
               /\ Truthy(KeyOf(c0))
               /\ KeyOf(c0).p \in DOMAIN normalizationCache
               /\ normalizationCache[KeyOf(c0).p] = calls[c0].result) =>
                calls'[c].result.ref = calls[c0].result.ref]_vars

\* the scope is empty, or the path equals it or has it as a prefix
Covers(scope, path) ==
  Len(scope) <= Len(path) /\ SubSeq(path, 1, Len(scope)) = scope
\* the handlers with this scope
Handlers(scope) == {s \in DOMAIN subscribers : subscribers[s] = scope}
\* the step delivers the pending batch
Delivery == pendingPaths # <<>> /\ pendingPaths' = <<>>
\* the step is the call op(arg)
Calls(op, arg) ==
  /\ Len(history') = Len(history) + 1
  /\ history'[Len(history')].op = op
  /\ history'[Len(history')].arg = arg
\* the calls made so far, without their times
Made == [i \in 1..Len(history) |-> Act(history[i].op, history[i].arg)]

\* C24: the calls of a window invoke no handler themselves; the delivery of
\* the batch invokes each handler whose scope covers a changed path of the
\* batch exactly once, however many changes the batch holds, with the state
\* that is current at the delivery.  After selectSystem('a'),
\* selectSystem('b'), selectSystem('c') in one window and the delivery, a
\* ['selection'] handler has been called once, with selection.system = 'c'.
C24_OneInvocationPerBatch ==
  [][/\ Len(history') > Len(history) => invocations' = invocations
     /\ Delivery =>
          \A s \in DOMAIN subscribers :
            (\E i \in 1..Len(pendingPaths) : Covers(subscribers[s], pendingPaths[i])) =>
              /\ invocations'[s].count = invocations[s].count + 1
              /\ invocations'[s].last = state'
              /\ invocations'[s].at = now
     /\ (/\ Delivery
         /\ Made = <<Act("selectSystem", Str("a")), Act("selectSystem", Str("b")),
                     Act("selectSystem", Str("c"))>>
         /\ history[3].at - history[1].at < BatchDelay) =>
          \A s \in Handlers(<<"selection">>) :
            /\ invocations'[s].count = 1
            /\ Deref(objects', invocations'[s].last).selection.system = Str("c")]_vars
\* three selections made at two moments of one window have been delivered
\* in one call of the ['selection'] handler
C24_Witness ==
  /\ Made = <<Act("selectSystem", Str("a")), Act("selectSystem", Str("b")),
              Act("selectSystem", Str("c"))>>
  /\ history[1].at < history[3].at
  /\ history[3].at - history[1].at < BatchDelay
  /\ pendingPaths = <<>>
  /\ \E s \in Handlers(<<"selection">>) : invocations[s].count = 1

\* C25: a delivery invokes a handler if and only if its scope is empty or
\* covers (equals, or is a prefix of) a changed path of the batch, and no
\* other step invokes a handler.  So an ['editor'] handler is called for a
\* change at ['editor','jobs'], an ['editor','jobs'] handler is not called
\* for a change at ['editor'] only, and a ['mode'] handler is never called
\* while only selectSystem is called.
C25_InvokedIffScopeCoversAChange ==
  [][/\ \A s \in DOMAIN subscribers :
          invocations'[s] # invocations[s] <=>
            /\ Delivery
            /\ \/ subscribers[s] = <<>>
               \/ \E i \in 1..Len(pendingPaths) :
                    Covers(subscribers[s], pendingPaths[i])
     /\ (\A i \in 1..Len(history') : history'[i].op = "selectSystem") =>
          \A s \in Handlers(<<"mode">>) : invocations'[s].count = 0]_vars
\* a batch with a change at ['editor'] only and a batch with a change at
\* ['editor','jobs'] were delivered: two calls of the ['editor'] handler, one
\* of the ['editor','jobs'] handler
C25_Witness ==
  /\ Made = <<Act("setEditorEnabled", Bool("true")), Act("addEditorJob", Job1)>>
  /\ pendingPaths = <<>>
  /\ \E s \in Handlers(<<"editor">>) : invocations[s].count = 2
  /\ \E s \in Handlers(<<"editor", "jobs">>) : invocations[s].count = 1

C27_InvalidModeIsNoOp ==
  [][\A a \in session.acts :
       (a.op = "setMode" /\ Calls("setMode", a.arg)) =>
         IF a.arg \in {Str("navcom"), Str("strategic")}
         THEN /\ state' # state
              /\ Deref(objects', state').mode = a.arg
              /\ pendingPaths' = Append(pendingPaths, <<"mode">>)
         ELSE /\ UNCHANGED <<objects, state, pendingPaths, batchTimer, invocations>>
              /\ Deref(objects', state') = Deref(objects, state)]_vars
\* an invalid mode was refused with a warning and a valid one was installed
C27_Witness ==
  /\ Made = <<Act("setMode", Str("tactical")), Act("setMode", Str("strategic"))>>
  /\ Len(diagnostics) = 1
  /\ Deref(objects, state).mode = Str("strategic")
  /\ Len(objects) = 6

\* C28: no step changes an object that exists; a step that changes the
\* state installs a state object that did not exist before; so what
\* getState() once returned reads the same ever after, selection, access
\* and editor.jobs included.
C28_SnapshotsNeverChange ==
  [][/\ \A r \in 1..Len(objects) : r \in 1..Len(objects') /\ objects'[r] = objects[r]
     /\ state' # state => state' > Len(objects)
     /\ \A a \in session.acts :
          (Calls(a.op, a.arg) /\ a.op # "getState"
           /\ (a.op = "setMode" => a.arg \in {Str("navcom"), Str("strategic")})) =>
            state' # state
     /\ \A i \in 1..Len(snapshots') :
          Deref(objects', snapshots'[i].ref) = snapshots'[i].val]_vars
\* a snapshot was taken and the state has since been replaced by one that
\* differs from it
C28_Witness ==
  /\ Len(history) = MaxActions
  /\ \E i \in 1..Len(snapshots) :
       /\ snapshots[i].ref # state
       /\ Deref(objects, state) # snapshots[i].val
       /\ Deref(objects, snapshots[i].ref) = snapshots[i].val

C31_EveryAsyncCallSettles ==
  \A c \in 1..MaxCalls :
    (c <= Len(calls) /\ calls[c].status = "pending")
      ~> (c <= Len(calls) /\ calls[c].status \in {"resolved", "rejected"})
\* a dispatched call was left unanswered and its timeout settled it
C31_Witness ==
  \E c \in 1..Len(calls) :
    /\ calls[c].async
    /\ calls[c].how = "timeout"
    /\ calls[c].status \in {"resolved", "rejected"}

\* C32 (as claimed): the pending map holds exactly the correlation ids of
\* the dispatched calls that are not settled yet, also when postMessage
\* fails; and a call that is settled is never settled again.
C32_PendingMapIsTheUnsettledCalls ==
  [][/\ DOMAIN pendingRequests' =
          {calls'[c].req : c \in {x \in 1..Len(calls') :
                                    calls'[x].req # 0 /\ calls'[x].status = "pending"}}
     /\ \A c \in 1..Len(calls) :
          calls[c].status # "pending" => calls'[c] = calls[c]]_vars

\* C33: a synchronous call, and an async call that finds its key in the
\* cache, leave the context, the number of contexts built, the correlation
\* counter, the timers, the pending map and the posted requests as they
\* were; the async hit resolves in the call with the cached instance.
C33_SyncAndHitsLeaveWorkerAlone ==
  [][LET n == Len(calls)
         cur == calls'[n + 1]
     IN (Len(calls') = n + 1 /\ (~cur.async \/ cur.how = "hit")) =>
          /\ UNCHANGED <<worker, contexts, workerRequestId, timers,
                         pendingRequests, inbox>>
          /\ (cur.async /\ cur.how = "hit") =>
               /\ cur.status = "resolved"
               /\ cur.result = normalizationCache[generateCacheKey(heap[cur.d]).p]
               /\ UNCHANGED normalizationCache]_vars
\* an async call was served from the cache in a page that could have built
\* a context and has none
C33_Witness ==
  /\ WorkerDefined
  /\ worker = 0 /\ contexts = 0 /\ workerRequestId = 0
  /\ \E c \in 1..Len(calls) :
       calls[c].async /\ calls[c].how = "hit" /\ calls[c].status = "resolved"

\* C34: a correlation id is given out once: the counter never goes back, a
\* dispatched call gets an id above every id given before, no two calls and
\* no two posted requests share an id, also after a fault and a rebuilt
\* context; and the reply to a posted request changes no call but the one
\* that carries the request's id.
C34_CorrelationIdsNeverReused ==
  [][/\ workerRequestId' >= workerRequestId
     /\ \A c \in 1..Len(calls') :
          /\ calls'[c].req <= workerRequestId'
          /\ (c > Len(calls) /\ calls'[c].req # 0) => calls'[c].req > workerRequestId
          /\ \A x \in 1..Len(calls') :
               (x # c /\ calls'[c].req # 0) => calls'[x].req # calls'[c].req
     /\ \A m1 \in inbox', m2 \in inbox' : m1.id = m2.id => m1 = m2
     /\ \A m \in inbox \ inbox' :
          /\ \A c \in 1..Len(calls) :
               calls'[c] # calls[c] => calls[c].req = m.id
          /\ \A i \in DOMAIN pendingRequests \ DOMAIN pendingRequests' : i = m.id]_vars
\* the first context faulted with its request rejected, a second context got
\* a request, and the reply of the first context was delivered while the
\* second request was still pending
C34_Witness ==
  /\ Len(calls) = 2
  /\ contexts = 2
  /\ calls[1].how = "fault" /\ calls[1].req = 1
  /\ calls[2].status = "pending" /\ calls[2].req = 2 /\ calls[2].init = "built"
  /\ \A m \in inbox : m.id # 1
  /\ 2 \in DOMAIN pendingRequests

\* C35: clearCache() empties the cache and leaves the context, the
\* correlation counter, the pending map, the timers and the posted requests
\* as they were; and the reply or the timeout of a call dispatched earlier
\* that then succeeds inserts its result under the call's key (when the
\* key is a non-empty text, the only keys the cache takes).
C35_ClearCacheLeavesRequestsInFlight ==
  [][/\ (normalizationCache # normalizationCache' /\ DOMAIN normalizationCache' = {}) =>
          UNCHANGED <<worker, contexts, workerRequestId, pendingRequests,
                      timers, inbox, calls>>
     /\ \A c \in 1..Len(calls) :
          (calls[c].status = "pending" /\ calls'[c].status = "resolved"
             /\ Truthy(KeyOf(c))) =>
               /\ KeyOf(c).p \in DOMAIN normalizationCache'
               /\ normalizationCache'[KeyOf(c).p] = calls'[c].result]_vars
\* an async call was dispatched, a synchronous call on another dataset
\* filled the cache, the cache was cleared (the second call's entry is
\* gone), and then the reply or the timeout of the first call filled it
\* again: its entry is the only one, and no call was made after the clear
C35_Witness ==
  /\ Len(calls) = 2
  /\ calls[1].async /\ calls[1].status = "resolved"
  /\ calls[1].how \in {"reply", "timeout"}
  /\ ~calls[2].async /\ calls[2].status = "returned" /\ calls[2].how = "sync"
  /\ Truthy(KeyOf(1)) /\ Truthy(KeyOf(2)) /\ KeyOf(1) # KeyOf(2)
  /\ DOMAIN normalizationCache = {KeyOf(1).p}

\* C36: in every result of a well-formed dataset, a system without an own
\* sector whose id is in more than one sector list has the sector that
\* comes last in raw.sectors among the sectors listing the id.
C36_LastListingSectorWins ==
  \A c \in 1..Len(calls) :
    (Done(c) /\ ~InvalidRaw(RawOf(c))) =>
      LET raw == RawOf(c)
          out == Get(calls[c].result.val, "systems")
      IN \A id \in KeySet(out) :
           LET own == OrElse(Get(Get(raw, "systems"), id), EmptyObj)
               listing == SectorsListing(raw, id)
           IN (~Present(Get(own, "sector")) /\ Cardinality(listing) >= 2) =>
                Get(Get(out, id), "sector") =
                  Str(Get(raw, "sectors").ks[Max(listing)])
\* system b of the dataset "own" has no own sector and is listed by rim and
\* then by core; a call resolved it to core
C36_Witness ==
  \E c \in 1..Len(calls) :
    /\ Done(c) /\ calls[c].d = "own"
    /\ ~Present(Get(Get(Get(RawOf(c), "systems"), "b"), "sector"))
    /\ SectorsListing(RawOf(c), "b") = {1, 2}
    /\ Get(RawOf(c), "sectors").ks = <<"rim", "core">>
    /\ Get(Get(Get(calls[c].result.val, "systems"), "b"), "sector") = Str("core")

\* the object datasets both normalizers take without an exception: every
\* sector list is a list (or falsy) and no getter throws
WellFormed(raw) ==
  /\ ~InvalidRaw(raw)
  /\ ~normalizeDatasetSync(raw).threw
  /\ FailedIds(raw) = {}

\* C37 (as claimed): the standalone normalizer, run with the Logger of
\* dm4-logger.js, returns what the synchronous normalizer of the cached
\* module returns: a value deep-equal to {systems: {}} for null, undefined
\* and non-object input, and a deep-equal consolidated dataset for every
\* well-formed object dataset.
C37_StandaloneEqualsCachedNormalizer ==
  \A c \in 1..Len(calls) :
    calls[c].how = "standalone" =>
      LET raw == RawOf(c)
      IN /\ InvalidRaw(raw) =>
              /\ calls[c].status = "returned"
              /\ DeepEqual(calls[c].result.val, EmptyDataset)
              /\ DeepEqual(calls[c].result.val, normalizeDatasetSync(raw).val)
         /\ WellFormed(raw) =>
              /\ calls[c].status = "returned"
              /\ DeepEqual(calls[c].result.val, normalizeDatasetSync(raw).val)
====
